---- MODULE Spec2Model ----
(***************************************************************************)
(* A model of manage_my_studies: the directory hierarchy                   *)
(* entry_point/<semester>/<course>, the sidecar files that persist the     *)
(* active selection, the two symlink mirrors, and the operations of the    *)
(* service layer (switch, remove) on top of the domain Store.              *)
(*                                                                         *)
(* Names are sequences of one-character strings, so that splitting a       *)
(* reference on '/', matching the naming pattern and joining paths are     *)
(* computed as the code computes them.  A path is the sequence of its      *)
(* components.  Option<T> is a sequence of length at most one.             *)
(***************************************************************************)
EXTENDS Naturals, Sequences, FiniteSets, TLC

VARIABLES
    semesterDirs,           \* names of the semester-level directories under the entry point
    entryFiles,             \* names of the regular files under the entry point, sidecar aside
    courseDirs,             \* semester name -> names of its course directories
    courseDO,               \* semester name -> course name -> `name` key of course.toml
    storeDO,                \* root sidecar: StoreDO.active_semester
    semesterDO,             \* semester name -> SemesterDO.active_course of its sidecar
    semester_link,          \* target of the "current semester" symlink, if it exists
    course_link,            \* target of the "current course" symlink, if it exists
    links_configured,       \* whether the configuration names the two symlink paths
    active_semester,        \* Store.active_semester (domain/store.rs), in memory
    active_course,          \* Semester.active_course of the loaded active semester (store.rs), in memory
    last                    \* the last operation: its input and its outcome

vars == <<semesterDirs, entryFiles, courseDirs, courseDO, storeDO, semesterDO, semester_link,
          course_link, links_configured, active_semester, active_course, last>>

disk == <<semesterDirs, entryFiles, courseDirs, courseDO>>

(***************************************************************************)
(* Bounds and universes                                                    *)
(***************************************************************************)
\* deepest working directory below the entry point that a context switch is run from
MaxDepth == 3
\* most segments of a reference string
MaxSegments == 3

None == <<>>
Some(v) == <<v>>

b01 == <<"b", "0", "1">>
m01 == <<"m", "0", "1">>
SemesterUniverse == {b01, m01}

cx == <<"x">>
cy == <<"y">>
CourseUniverse == {cx, cy}
\* the courses that may exist when the program starts
InitCourses == {cx}

\* a directory under the entry point whose name is not a semester name
misc == <<"z">>
\* a directory inside every course directory and inside misc
sub == <<"s">>

\* the entry point /e and a directory /o outside of it
studies == <<<<"e">>>>
outside == <<<<"o">>>>

empty == <<>>
slash == "/"

\* the orders in which a directory listing may yield the members of S
Orders(S) == {o \in [1..Cardinality(S) -> S] : \A i, j \in 1..Cardinality(S) : o[i] = o[j] => i = j}

IsPrefix(p, q) == Len(p) <= Len(q) /\ SubSeq(q, 1, Len(p)) = p

(***************************************************************************)
(* Paths (std::path and domain/paths.rs)                                   *)
(***************************************************************************)
\* PathBuf::join with a relative single-component name; joining "" adds no component
join(path, name) == IF name = empty THEN path ELSE Append(path, name)

\* Path::ancestors: the path itself, then its parents up to the root
ancestors(path) == [i \in 1..(Len(path) + 1) |-> SubSeq(path, 1, Len(path) + 1 - i)]

\* Iterator::position over ancestors, counted from 0; None when no ancestor matches
position(path, target) ==
    IF IsPrefix(target, path) THEN Some(Len(path) - Len(target)) ELSE None

\* Path::file_name
file_name(path) == path[Len(path)]

\* path.exists() && path.is_dir(), on the modelled file system
is_dir(path) ==
    \/ IsPrefix(path, studies)
    \/ path = outside
    \/ /\ IsPrefix(studies, path)
       /\ LET rel == SubSeq(path, Len(studies) + 1, Len(path))
          IN  \/ /\ Len(rel) >= 1
                 /\ rel[1] = misc
                 /\ \A i \in 2..Len(rel) : rel[i] = sub
              \/ /\ Len(rel) >= 1
                 /\ rel[1] \in semesterDirs
                 /\ Len(rel) >= 2 => rel[2] \in courseDirs[rel[1]]
                 /\ \A i \in 3..Len(rel) : rel[i] = sub

(***************************************************************************)
(* Naming policy (domain/config.rs), default pattern                       *)
(***************************************************************************)
Digits == {"0", "1", "2", "3", "4", "5", "6", "7", "8", "9"}

\* Regex::is_match of ^(?P<study_cycle>[bmd])(?P<semester_number>\d{2})
is_name(name) ==
    /\ Len(name) >= 3
    /\ name[1] \in {"b", "m", "d"}
    /\ name[2] \in Digits
    /\ name[3] \in Digits

(***************************************************************************)
(* Path handles and entities (domain/paths.rs, semester.rs, course.rs)     *)
(***************************************************************************)
\* EntryPoint::semester_path
semester_path(name) ==
    IF is_name(name) /\ is_dir(join(studies, name))
    THEN Some([path |-> join(studies, name), name |-> name])
    ELSE None

\* SemesterPath::course_path
course_path(semester, name) ==
    IF is_dir(join(semester.path, name))
    THEN Some([path |-> join(semester.path, name), name |-> name])
    ELSE None

\* the `name` key of the course.toml template written by CoursePath::data_file
TemplateName == None

\* the content of a course.toml that does not parse as a CourseDO
unreadable == <<<<"=">>, <<"=">>>>

\* Course::from_path: the data file is created from the template when absent
\* and its `name` key is read; it fails when the directory is gone and when
\* the file does not parse
Course_from_path(path) ==
    IF ~is_dir(path.path) THEN None
    ELSE LET rel == SubSeq(path.path, Len(studies) + 1, Len(path.path))
             data == IF Len(rel) = 2 /\ rel[2] \in CourseUniverse
                     THEN courseDO[rel[1]][rel[2]] ELSE TemplateName
         IN  IF data = unreadable THEN None ELSE Some([path |-> path, name |-> data])

\* Course::name: the override, or the bracketed directory name
Course_name(course) ==
    IF course.name # None THEN course.name[1]
    ELSE <<"[">> \o course.path.name \o <<"]">>

\* Semester::from_path: the sidecar is created when absent (which fails when the
\* directory is gone) and read; the persisted course resolves only if it exists
Semester_from_path(path) ==
    IF ~is_dir(path.path) THEN None
    ELSE Some([path |-> path,
               active_course |->
                   IF semesterDO[path.name] = None THEN None
                   ELSE course_path(path, semesterDO[path.name][1])])

\* Semester::active_course
Semester_active_course(semester) ==
    IF semester.active_course = None THEN None
    ELSE Course_from_path(semester.active_course[1])

\* Semester::course
Semester_course(semester, name) ==
    LET p == course_path(semester.path, name)
    IN  IF p = None THEN None ELSE Course_from_path(p[1])

(***************************************************************************)
(* Store queries (domain/store.rs)                                         *)
(***************************************************************************)
\* Store::get_semester
get_semester(name) ==
    LET p == semester_path(name)
    IN  IF p = None THEN None ELSE Semester_from_path(p[1])

\* a store that keeps the handle it was given without loading it from disk again
current_semester_cached ==
    IF active_semester = None THEN None
    ELSE Some([path |-> active_semester[1],
               active_course |-> IF semesterDO[active_semester[1].name] = None THEN None
                                 ELSE course_path(active_semester[1],
                                                  semesterDO[active_semester[1].name][1])])

\* Store::current_semester
current_semester ==
    IF active_semester = None THEN None ELSE Semester_from_path(active_semester[1])

\* a store that trusts the persisted course pointer without resolving it on disk
current_course_unresolved ==
    IF active_semester = None \/ semesterDO[active_semester[1].name] = None THEN None
    ELSE Some([path |-> [path |-> join(active_semester[1].path,
                                       semesterDO[active_semester[1].name][1]),
                         name |-> semesterDO[active_semester[1].name][1]],
               name |-> TemplateName])

\* Store::current_course
current_course ==
    IF current_semester = None THEN None ELSE Semester_active_course(current_semester[1])

\* EntryPoint::semester_paths: the entries of the entry point whose names the
\* policy accepts, in the order `order` of the directory listing
semester_paths(order) ==
    LET Listed(n) == n \in semesterDirs \cup entryFiles /\ is_name(n)
        names == SelectSeq(order, Listed)
    IN  [i \in 1..Len(names) |-> [path |-> join(studies, names[i]), name |-> names[i]]]

\* Store::semesters: the listed paths from which a semester loads
semesters(order) ==
    LET Loads(path) == Semester_from_path(path) # None
        paths == SelectSeq(semester_paths(order), Loads)
    IN  [i \in 1..Len(paths) |-> Semester_from_path(paths[i])[1]]

\* Semester::courses: the course directories from which a course loads, in the
\* order `corder` of the directory listing
Semester_courses(semester, corder) ==
    LET Listed(n) == n \in courseDirs[semester.path.name] /\ Semester_course(semester, n) # None
        names == SelectSeq(corder, Listed)
    IN  [i \in 1..Len(names) |-> Semester_course(semester, names[i])[1]]

\* Store::courses: the courses of every listed semester, flattened
RECURSIVE Flatten(_)
Flatten(ss) == IF ss = <<>> THEN <<>> ELSE Head(ss) \o Flatten(Tail(ss))

courses(order, corder) ==
    LET sems == semesters(order)
    IN  Flatten([i \in 1..Len(sems) |-> Semester_courses(sems[i], corder)])

\* Iterator::find: the first of the elements that satisfy the test, if any
Find(hits) == IF hits = <<>> THEN None ELSE Some(hits[1])

(***************************************************************************)
(* Symlink mirror (domain/paths.rs MaybeSymLinkable)                       *)
(***************************************************************************)
\* What is at a configured link path: None when nothing is there, Some(target)
\* for a symlink to target, Some(not_a_link) for a file or a directory.
not_a_link == <<>>

\* Path::is_symlink
is_symlink(link) == link # None /\ link[1] # not_a_link

\* Path::exists, which follows a symlink to its target
link_exists(link) ==
    /\ link # None
    /\ is_symlink(link) => is_dir(link[1])

\* MaybeSymLinkable::new: whether it returns Ok
MaybeSymLinkable_new(link) ==
    IF links_configured
    THEN IF link_exists(link) /\ is_symlink(link) THEN "Ok" ELSE "Err"
    ELSE "Ok"

\* MaybeSymLinkable::remove_link: the link is removed if it is there
remove_link(link) == IF links_configured /\ is_symlink(link) THEN None ELSE link

\* a link_from that does not remove the link that is there, so that symlink() fails on it
link_from_unremoved(link, original) ==
    IF links_configured /\ link = None THEN Some(original) ELSE link

\* MaybeSymLinkable::link_from: remove_link, then a fresh symlink to the target,
\* which fails when something is still at the path
link_from(link, original) ==
    IF links_configured /\ remove_link(link) = None THEN Some(original) ELSE remove_link(link)

\* MaybeSymLinkable::link_from: whether it returns Ok
link_from_result(link) ==
    IF links_configured /\ remove_link(link) # None THEN "Err" ELSE "Ok"

(***************************************************************************)
(* Store mutations (domain/store.rs).  An operation's outcome is a record: *)
(* its result, its message, and the calls it made to set_current_semester  *)
(* (set_semester, semester) and set_current_course (set_course, of,        *)
(* course) before it returned.                                             *)
(***************************************************************************)
Outcome(res, msg, set_semester, semester, set_course, of, course) ==
    [res |-> res, msg |-> msg, set_semester |-> set_semester, semester |-> semester,
     set_course |-> set_course, of |-> of, course |-> course]

Fail(msg) == Outcome("Err", msg, FALSE, None, FALSE, None, None)

\* Store::set_current_semester, the in-memory pointer
set_current_semester_memory(o) ==
    IF ~o.set_semester THEN active_semester
    ELSE IF o.semester = None THEN None ELSE Some(o.semester[1].path)

\* a set_current_semester that changes the pointer in memory only
set_current_semester_file_stale(o) == storeDO

\* Store::set_current_semester, the root sidecar
set_current_semester_file(o) ==
    IF ~o.set_semester THEN storeDO
    ELSE IF o.semester = None THEN None ELSE Some(o.semester[1].path.name)

\* Store::set_current_semester, the semester symlink
set_current_semester_link(o) ==
    IF ~o.set_semester THEN semester_link
    ELSE IF o.semester = None THEN remove_link(semester_link)
         ELSE link_from(semester_link, o.semester[1].path.path)

\* a set_current_course that forgets to write the semester's sidecar
set_active_unwritten(o) == semesterDO

\* Semester::set_active called by Store::set_current_course: the semester's sidecar
set_active(o) ==
    IF ~o.set_course THEN semesterDO
    ELSE [semesterDO EXCEPT ![o.of[1].path.name] =
             IF o.course = None THEN None ELSE Some(o.course[1].path.name)]

\* a set_current_semester(None) that leaves the course symlink in place
set_current_course_link_kept(o) ==
    IF ~o.set_course THEN course_link
    ELSE IF o.course = None THEN remove_link(course_link)
         ELSE link_from(course_link, o.course[1].path.path)

\* the course symlink, after Store::set_current_semester and Store::set_current_course
set_current_course_link(o) ==
    LET after_semester == IF o.set_semester /\ o.semester = None
                          THEN remove_link(course_link) ELSE course_link
    IN  IF ~o.set_course THEN after_semester
        ELSE IF o.course = None THEN remove_link(after_semester)
             ELSE link_from(after_semester, o.course[1].path.path)

\* a set_current_semester that removes the directory of the semester it leaves
set_current_semester_directories_dropped(o) ==
    IF /\ o.set_semester
       /\ active_semester # None
       /\ (o.semester = None \/ o.semester[1].path # active_semester[1])
    THEN semesterDirs \ {active_semester[1].name}
    ELSE semesterDirs

\* Store::set_current_semester and Store::set_current_course write the root
\* sidecar, the semester's sidecar and the symlinks: the directories of the
\* entry point stay as they are
set_current_semester_directories(o) == semesterDirs

Apply(o) ==
    /\ semesterDirs' = set_current_semester_directories(o)
    /\ active_semester' = set_current_semester_memory(o)
    /\ storeDO' = set_current_semester_file(o)
    /\ semester_link' = set_current_semester_link(o)
    /\ semesterDO' = set_active(o)
    /\ course_link' = set_current_course_link(o)

(***************************************************************************)
(* Reference strings                                                       *)
(***************************************************************************)
\* str::split('/'): one more piece than there are separators, never zero pieces
RECURSIVE split(_)
split(reference) ==
    IF \A i \in 1..Len(reference) : reference[i] # slash THEN <<reference>>
    ELSE LET i == CHOOSE k \in 1..Len(reference) :
                      reference[k] = slash /\ \A j \in 1..(k - 1) : reference[j] # slash
         IN  <<SubSeq(reference, 1, i - 1)>> \o split(SubSeq(reference, i + 1, Len(reference)))

\* the reference string made of the given segments
RECURSIVE Joined(_)
Joined(segments) ==
    IF Len(segments) = 1 THEN segments[1]
    ELSE segments[1] \o <<slash>> \o Joined(Tail(segments))

\* the references tried: every one-segment and two-segment reference over the
\* names in use and the empty name, and one reference of each greater length
References ==
    LET first == SemesterUniverse \cup {cx, cy, empty}
        second == {cx, cy, empty}
    IN  {Joined(<<a>>) : a \in first}
        \cup {Joined(<<a, b>>) : a \in SemesterUniverse \cup {cx}, b \in second}
        \cup {Joined(<<b01, cx>> \o [i \in 1..(n - 2) |-> cx]) : n \in 3..MaxSegments}

(***************************************************************************)
(* SwitchService (service/switch.rs)                                       *)
(***************************************************************************)
\* a reference_switch that looks for a course of the active semester before it
\* looks for a semester
reference_switch_course_first(reference, order, corder) ==
    LET segs == split(reference)
    IN  IF Len(segs) = 1 THEN
            LET semester == get_semester(segs[1])
                active == current_semester
                in_active == IF active = None THEN None
                             ELSE Semester_course(active[1], segs[1])
            IN  IF in_active # None
                THEN Outcome("Ok", "course", FALSE, None, TRUE, active, in_active)
                ELSE IF semester # None
                THEN Outcome("Ok", "semester", TRUE, semester, FALSE, None, None)
                ELSE Fail("NotFound")
        ELSE IF Len(segs) = 2 THEN
            LET semester == get_semester(segs[1])
                course == Semester_course(semester[1], segs[2])
            IN  IF semester = None THEN Fail("NotFound")
                ELSE IF course = None THEN Fail("NotFound")
                ELSE Outcome("Ok", "course", TRUE, semester, TRUE, semester, course)
        ELSE Fail("InvalidReference")

\* SwitchService::reference_switch
reference_switch(reference, order, corder) ==
    LET segs == split(reference)
    IN  IF Len(segs) = 0 THEN Fail("InvalidReference")
        ELSE IF Len(segs) = 1 THEN
            LET semester == get_semester(segs[1])
                active == current_semester
                in_active == IF active = None THEN None
                             ELSE Semester_course(active[1], segs[1])
                Named(c) == Course_name(c) = segs[1]
                course == Find(SelectSeq(courses(order, corder), Named))
                Owns(s) == Semester_course(s, Course_name(course[1])) # None
                owner == Find(SelectSeq(semesters(order), Owns))
            IN  IF semester # None
                THEN Outcome("Ok", "semester", TRUE, semester, FALSE, None, None)
                ELSE IF in_active # None
                THEN Outcome("Ok", "course", FALSE, None, TRUE, active, in_active)
                ELSE IF course # None
                THEN IF owner # None
                     THEN Outcome("Ok", "course", TRUE, owner, TRUE, owner, course)
                     ELSE Fail("NotFound")
                ELSE Fail("NotFound")
        ELSE IF Len(segs) = 2 THEN
            LET semester == get_semester(segs[1])
                course == Semester_course(semester[1], segs[2])
            IN  IF semester = None THEN Fail("NotFound")
                ELSE IF course = None THEN Fail("NotFound")
                ELSE Outcome("Ok", "course", TRUE, semester, TRUE, semester, course)
        ELSE Fail("InvalidReference")

\* the directory listings a reference switch may see: their order is an input
\* only when the switch reads them, for a single segment that names neither a
\* semester nor a course of the active semester
AllListings == Orders(SemesterUniverse) \X Orders(CourseUniverse)

OneListing == CHOOSE l \in AllListings : TRUE

Listings(reference) ==
    LET segs == split(reference)
    IN  IF /\ Len(segs) = 1
           /\ get_semester(segs[1]) = None
           /\ \/ current_semester = None
              \/ Semester_course(current_semester[1], segs[1]) = None
        THEN AllListings
        ELSE {OneListing}

\* the working directories tried: the entry point, a directory outside of it,
\* the directories below the entry point down to MaxDepth, and a directory
\* inside misc
WorkingDirs ==
    {studies, outside}
    \cup {<<studies[1], s>> : s \in SemesterUniverse \cup {misc}}
    \cup {<<studies[1], misc, sub>>}
    \cup {<<studies[1], s, c>> \o [i \in 1..(n - 2) |-> sub] :
              s \in SemesterUniverse, c \in CourseUniverse, n \in 2..MaxDepth}

\* a context_switch that looks the course up before it activates the semester,
\* so that a failed course lookup leaves the selection as it was
context_switch_course_first(w_dir) ==
    LET index == position(w_dir, studies)
    IN  IF w_dir = studies
        THEN Outcome("Ok", "cleared", TRUE, None, FALSE, None, None)
        ELSE IF index = None
        THEN Outcome("Ok", "OutOfScope", FALSE, None, FALSE, None, None)
        ELSE IF index[1] = 1 THEN
            LET semester == get_semester(file_name(w_dir))
            IN  IF semester = None THEN Fail("NotASemester")
                ELSE Outcome("Ok", "semester", TRUE, semester, FALSE, None, None)
        ELSE
            LET semester == get_semester(file_name(ancestors(w_dir)[index[1]]))
                course == Semester_course(semester[1],
                                          file_name(ancestors(w_dir)[index[1] - 1]))
            IN  IF semester = None THEN Fail("NotASemester")
                ELSE IF course = None THEN Fail("NotACourse")
                ELSE Outcome("Ok", "course", TRUE, semester, TRUE, semester, course)

\* a context_switch that takes the two directories nearest the working
\* directory: its parent as the semester and itself as the course
context_switch_nearest(w_dir) ==
    LET index == position(w_dir, studies)
    IN  IF w_dir = studies
        THEN Outcome("Ok", "cleared", TRUE, None, FALSE, None, None)
        ELSE IF index = None
        THEN Outcome("Ok", "OutOfScope", FALSE, None, FALSE, None, None)
        ELSE IF index[1] = 1 THEN
            LET semester == get_semester(file_name(w_dir))
            IN  IF semester = None THEN Fail("NotASemester")
                ELSE Outcome("Ok", "semester", TRUE, semester, FALSE, None, None)
        ELSE
            LET semester == get_semester(file_name(ancestors(w_dir)[2]))
                course == Semester_course(semester[1], file_name(ancestors(w_dir)[1]))
            IN  IF semester = None THEN Fail("NotASemester")
                ELSE IF course = None
                THEN Outcome("Err", "NotACourse", TRUE, semester, FALSE, None, None)
                ELSE Outcome("Ok", "course", TRUE, semester, TRUE, semester, course)

\* SwitchService::context_switch, from the canonical working directory w_dir
context_switch(w_dir) ==
    LET index == position(w_dir, studies)
    IN  IF w_dir = studies
        THEN Outcome("Ok", "cleared", TRUE, None, FALSE, None, None)
        ELSE IF index = None
        THEN Outcome("Ok", "OutOfScope", FALSE, None, FALSE, None, None)
        ELSE IF index[1] = 1 THEN
            LET semester == get_semester(file_name(w_dir))
            IN  IF semester = None THEN Fail("NotASemester")
                ELSE Outcome("Ok", "semester", TRUE, semester, FALSE, None, None)
        ELSE
            LET semester == get_semester(file_name(ancestors(w_dir)[index[1]]))
                course == Semester_course(semester[1],
                                          file_name(ancestors(w_dir)[index[1] - 1]))
            IN  IF semester = None THEN Fail("NotASemester")
                ELSE IF course = None
                THEN Outcome("Err", "NotACourse", TRUE, semester, FALSE, None, None)
                ELSE Outcome("Ok", "course", TRUE, semester, TRUE, semester, course)

(***************************************************************************)
(* State machine                                                           *)
(***************************************************************************)
Last(op, reference, w_dir, name, to, res, msg) ==
    [op |-> op, reference |-> reference, w_dir |-> w_dir, name |-> name, to |-> to,
     res |-> res, msg |-> msg]

\* a Store::new that takes the persisted name as it is
Store_new_active_semester_unchecked ==
    IF storeDO = None THEN None
    ELSE Some([path |-> join(studies, storeDO[1]), name |-> storeDO[1]])

\* Store::new: the persisted pointer is kept only if it still names a semester directory
Store_new_active_semester ==
    IF storeDO = None THEN None ELSE semester_path(storeDO[1])

Init ==
    /\ semesterDirs \in SUBSET SemesterUniverse
    /\ entryFiles = {}
    /\ courseDirs \in [SemesterUniverse -> SUBSET InitCourses]
    /\ \A s \in SemesterUniverse \ semesterDirs : courseDirs[s] = {}
    /\ courseDO \in [SemesterUniverse -> [CourseUniverse -> {None, Some(cx)}]]
    /\ \A s \in SemesterUniverse : \A c \in CourseUniverse \ courseDirs[s] :
           courseDO[s][c] = TemplateName
    /\ storeDO \in {None} \cup {Some(s) : s \in SemesterUniverse \cup {misc}}
    /\ semesterDO \in [SemesterUniverse -> {None, Some(cx)}]
    /\ \A s \in SemesterUniverse \ semesterDirs : semesterDO[s] = None
    /\ links_configured = TRUE
    /\ semester_link = IF links_configured THEN Some(outside) ELSE None
    /\ course_link = IF links_configured THEN Some(outside) ELSE None
    /\ active_semester = Store_new_active_semester
    /\ active_course = None
    /\ last = Last("new", empty, studies, empty, empty, "Ok", "")

\* a new invocation of the program: Store::new
StoreNew ==
    /\ active_semester' = Store_new_active_semester
    /\ last' = Last("new", empty, studies, empty, empty, "Ok", "")
    /\ UNCHANGED <<disk, storeDO, semesterDO, semester_link, course_link,
                   links_configured, active_course>>

\* `switch <reference>`
ReferenceSwitch ==
    \E reference \in References : \E listing \in Listings(reference) :
        LET o == reference_switch(reference, listing[1], listing[2])
        IN  /\ Apply(o)
            /\ last' = Last("reference_switch", reference, studies, empty, empty, o.res, o.msg)
            /\ UNCHANGED <<entryFiles, courseDirs, courseDO, links_configured, active_course>>

\* `switch` without a reference, run from an existing directory
ContextSwitch ==
    \E w_dir \in WorkingDirs :
        /\ is_dir(w_dir)
        /\ LET o == context_switch(w_dir)
           IN  /\ Apply(o)
               /\ last' = Last("context_switch", empty, w_dir, empty, empty, o.res, o.msg)
               /\ UNCHANGED <<entryFiles, courseDirs, courseDO, links_configured, active_course>>

\* SemesterService::remove: `semester remove <name>`, confirmed or not in the dialog
SemesterRemove ==
    \E name \in SemesterUniverse \cup {misc}, confirmed \in BOOLEAN :
        LET semester == get_semester(name)
        IN  /\ IF confirmed /\ semester # None
               THEN /\ semesterDirs' = semesterDirs \ {name}
                    /\ courseDirs' = [courseDirs EXCEPT ![name] = {}]
                    /\ courseDO' = [courseDO EXCEPT ![name] = [c \in CourseUniverse |-> TemplateName]]
                    /\ semesterDO' = [semesterDO EXCEPT ![name] = None]
                    /\ UNCHANGED entryFiles
               ELSE UNCHANGED <<disk, semesterDO>>
            /\ last' = Last("semester_remove", empty, studies, name, empty,
                            IF confirmed /\ semester = None THEN "Err" ELSE "Ok",
                            IF ~confirmed THEN "canceled"
                            ELSE IF semester = None THEN "NotFound" ELSE "removed")
            /\ UNCHANGED <<storeDO, semester_link, course_link, links_configured,
                           active_semester, active_course>>

\* CourseService::remove: `course remove <name>`, confirmed or not in the dialog
CourseRemove ==
    \E name \in CourseUniverse, confirmed \in BOOLEAN :
        LET semester == current_semester
            course == Semester_course(semester[1], name)
            removes == semester # None /\ confirmed /\ course # None
        IN  /\ IF removes
               THEN /\ courseDirs' = [courseDirs EXCEPT ![semester[1].path.name] = @ \ {name}]
                    /\ courseDO' = [courseDO EXCEPT ![semester[1].path.name][name] = TemplateName]
                    /\ UNCHANGED <<semesterDirs, entryFiles>>
               ELSE UNCHANGED disk
            /\ last' = Last("course_remove", empty, studies, name, empty,
                            IF semester # None /\ confirmed /\ course = None THEN "Err" ELSE "Ok",
                            IF semester = None THEN "NoActiveSemester"
                            ELSE IF ~confirmed THEN "canceled"
                            ELSE IF course = None THEN "NotFound" ELSE "removed")
            /\ UNCHANGED <<storeDO, semesterDO, semester_link, course_link,
                           links_configured, active_semester, active_course>>

Next ==
    \/ StoreNew
    \/ ReferenceSwitch
    \/ ContextSwitch
    \/ SemesterRemove
    \/ CourseRemove

Spec == Init /\ [][Next]_vars

(***************************************************************************)
(* The earlier store (store.rs, course.rs): Store owns the loaded active   *)
(* Semester, which owns its active Course in memory.  `course move` exists *)
(* only there.                                                             *)
(***************************************************************************)
\* path.exists(): a directory or a file of the modelled file system
exists(path) ==
    \/ is_dir(path)
    \/ /\ Len(path) = Len(studies) + 1
       /\ IsPrefix(studies, path)
       /\ file_name(path) \in entryFiles

\* Store::_get_semester: the directory exists, its name is b, m or d followed by a u16
Store_get_semester(name) ==
    IF /\ exists(join(studies, name))
       /\ Len(name) >= 2
       /\ name[1] \in {"b", "m", "d"}
       /\ \A i \in 2..Len(name) : name[i] \in Digits
    THEN Some([path |-> join(studies, name), name |-> name])
    ELSE None

\* Semester::new: the persisted course is loaded if its path exists
Semester_new(semester) ==
    IF semesterDO[semester.name] = None THEN None
    ELSE LET name == semesterDO[semester.name][1]
         IN  IF exists(join(semester.path, name))
             THEN Some([path |-> join(semester.path, name), name |-> name])
             ELSE None

\* Semester::get_course
Semester_get_course(semester, name) ==
    IF exists(join(semester.path, name))
    THEN Some([path |-> join(semester.path, name), name |-> name])
    ELSE None

\* Semester::is_active
Semester_is_active(course) ==
    active_course # None /\ active_course[1].path = course.path

\* a move_course that renames without looking at the destination
move_course_taken_unchecked(semester, to) == FALSE

\* Semester::move_course: whether the destination path exists
move_course_taken(semester, to) == exists(join(semester.path, to))

\* a move_course that renames the directory and keeps the old active course
move_course_active_kept(course, to) == active_course

\* Semester::move_course, the in-memory active course after the rename
move_course_active(course, to) ==
    IF Semester_is_active(course)
    THEN Some([path |-> join(active_semester[1].path, to), name |-> to])
    ELSE active_course

\* a new invocation of the program: Store::new of store.rs
StoreLoad ==
    LET semester == IF storeDO = None THEN None ELSE Store_get_semester(storeDO[1])
    IN  /\ active_semester' = semester
        /\ active_course' = IF semester = None THEN None ELSE Semester_new(semester[1])
        /\ last' = Last("load", empty, studies, empty, empty, "Ok", "")
        /\ UNCHANGED <<disk, storeDO, semesterDO, semester_link, course_link, links_configured>>

\* from_to (course.rs): `course move <to> [from]`; FROM defaults to the active course
CourseMove ==
    \E from \in {None} \cup {Some(c) : c \in CourseUniverse}, to \in CourseUniverse :
        LET semester == active_semester
            name == IF from # None THEN from
                    ELSE IF active_course # None THEN Some(active_course[1].name) ELSE None
            course == IF semester = None \/ name = None THEN None
                      ELSE Semester_get_course(semester[1], name[1])
            taken == move_course_taken(semester[1], to)
            moves == course # None /\ ~taken
            s == semester[1].name
        IN  /\ IF moves
               THEN /\ courseDirs' = [courseDirs EXCEPT ![s] = (@ \ {name[1]}) \cup {to}]
                    /\ courseDO' = [courseDO EXCEPT ![s][to] = courseDO[s][name[1]],
                                                    ![s][name[1]] = TemplateName]
                    /\ active_course' = move_course_active(course[1], to)
                    /\ UNCHANGED <<semesterDirs, entryFiles>>
               ELSE UNCHANGED <<disk, active_course>>
            /\ last' = Last("course_move", empty, studies,
                            IF name = None THEN empty ELSE name[1], to,
                            IF moves THEN "Ok" ELSE "Err",
                            IF semester = None THEN "NoActiveSemester"
                            ELSE IF course = None THEN "NotFound"
                            ELSE IF taken THEN "AlreadyExists" ELSE "moved")
            /\ UNCHANGED <<storeDO, semesterDO, semester_link, course_link,
                           links_configured, active_semester>>

InitMove ==
    /\ semesterDirs \in SUBSET SemesterUniverse
    /\ entryFiles = {}
    /\ courseDirs \in [SemesterUniverse -> SUBSET CourseUniverse]
    /\ \A s \in SemesterUniverse \ semesterDirs : courseDirs[s] = {}
    /\ courseDO = [s \in SemesterUniverse |-> [c \in CourseUniverse |-> TemplateName]]
    /\ storeDO \in {None} \cup {Some(s) : s \in SemesterUniverse}
    /\ semesterDO \in [SemesterUniverse -> {None} \cup {Some(c) : c \in CourseUniverse}]
    /\ \A s \in SemesterUniverse \ semesterDirs : semesterDO[s] = None
    /\ links_configured = FALSE
    /\ semester_link = None
    /\ course_link = None
    /\ active_semester = IF storeDO = None THEN None ELSE Store_get_semester(storeDO[1])
    /\ active_course = IF active_semester = None THEN None ELSE Semester_new(active_semester[1])
    /\ last = Last("load", empty, studies, empty, empty, "Ok", "")

NextMove ==
    \/ StoreLoad
    \/ CourseMove

SpecMove == InitMove /\ [][NextMove]_vars

(***************************************************************************)
(* Semester names (domain/config.rs, domain/semester.rs) and `semester     *)
(* add` (service/semester.rs, domain/paths.rs).  A study cycle is the name *)
(* of its enum variant; a semester number is a u16.                        *)
(***************************************************************************)
\* largest semester number tried besides U16Max
MaxNumber == 110
\* u16::MAX
U16Max == 65535

StudyCycles == {"Bachelor", "Master", "Doctorate"}

\* StudyCycle::abbreviation
abbreviation(study_cycle) ==
    CASE study_cycle = "Bachelor" -> "b"
      [] study_cycle = "Master" -> "m"
      [] study_cycle = "Doctorate" -> "d"

\* fmt::Display for StudyCycle
Display(study_cycle) ==
    CASE study_cycle = "Bachelor" -> <<"B", "a", "c", "h", "e", "l", "o", "r">>
      [] study_cycle = "Master" -> <<"M", "a", "s", "t", "e", "r">>
      [] study_cycle = "Doctorate" -> <<"D", "o", "c", "t", "o", "r", "a", "t", "e">>

\* the default study_cycle_mapping of SemesterNames::new
study_cycle_mapping == <<<<"b", "Bachelor">>, <<"m", "Master">>, <<"d", "Doctorate">>>>

DigitChars == <<"0", "1", "2", "3", "4", "5", "6", "7", "8", "9">>

\* format!("{}", n) of an unsigned integer
RECURSIVE Decimal(_)
Decimal(n) ==
    IF n < 10 THEN <<DigitChars[n + 1]>>
    ELSE Append(Decimal(n \div 10), DigitChars[(n % 10) + 1])

\* format!("{:02}", n): padded with zeros to at least two digits
Decimal02(n) == IF n < 10 THEN <<"0">> \o Decimal(n) ELSE Decimal(n)

\* the value of one decimal digit
DigitValue(c) == CHOOSE d \in 0..9 : DigitChars[d + 1] = c

\* str::parse::<u16>: None when the digits do not fit
RECURSIVE Value(_)
Value(digits) ==
    IF digits = <<>> THEN 0
    ELSE 10 * Value(SubSeq(digits, 1, Len(digits) - 1)) + DigitValue(digits[Len(digits)])

parse_u16(digits) ==
    IF digits # <<>> /\ (\A i \in 1..Len(digits) : digits[i] \in Digits) /\ Value(digits) <= U16Max
    THEN Some(Value(digits)) ELSE None

\* SemesterNames::deserialize: the captures of the pattern at the start of the
\* name, the number parsed, the cycle looked up in the mapping
deserialize(name) ==
    IF ~is_name(name) THEN None
    ELSE LET semester_number == parse_u16(SubSeq(name, 2, 3))
             Mapped(it) == it[1] = name[1]
             study_cycle == SelectSeq(study_cycle_mapping, Mapped)
         IN  IF semester_number = None \/ study_cycle = <<>> THEN None
             ELSE Some([semester_number |-> semester_number[1],
                        study_cycle |-> study_cycle[1][2]])

\* the format! of Semester::name
format_name(study_cycle, semester_number) ==
    <<abbreviation(study_cycle)>> \o Decimal02(semester_number)

\* Semester::name of a loaded semester, whose number and cycle Semester::from_path
\* took from deserialize of the directory name
Semester_name(semester) ==
    LET it == deserialize(semester.path.name)[1]
    IN  format_name(it.study_cycle, it.semester_number)

\* the numbers `semester add` is run with
AddNumbers == {1}

\* the numbers a name is formatted from: the small ones and the largest u16
Numbers == (0..MaxNumber) \cup {U16Max}

\* b100: a directory for semester 100 of the bachelor cycle
b100 == <<"b", "1", "0", "0">>

\* the directories that may exist under the entry point when the program starts
NameDirs == {b01, b100}

\* the name EntryPoint::create_semester_path gives the new directory
create_semester_name(semester_number, study_cycle) ==
    Display(study_cycle) \o Decimal(semester_number)

\* SemesterService::add: `semester add <number> [study_cycle]`
SemesterAdd ==
    \E number \in AddNumbers, study_cycle \in {None} \cup {Some(c) : c \in StudyCycles} :
        LET cycle == IF study_cycle # None THEN study_cycle
                     ELSE IF current_semester # None
                     THEN Some(deserialize(current_semester[1].path.name)[1].study_cycle)
                     ELSE None
            name == create_semester_name(number, cycle[1])
            taken == exists(join(studies, name))
            creates == cycle # None /\ ~taken
            \* get_semester of the directory that was just created
            retrieved == is_name(name)
        IN  /\ semesterDirs' = IF creates THEN semesterDirs \cup {name} ELSE semesterDirs
            /\ last' = Last("semester_add", empty, studies,
                            IF cycle = None THEN empty ELSE name, empty,
                            IF creates /\ retrieved THEN "Ok" ELSE "Err",
                            IF cycle = None THEN "NoStudyCycle"
                            ELSE IF taken THEN "AlreadyExists"
                            ELSE IF retrieved THEN "created" ELSE "NotRetrieved")
                        @@ [number |-> number, study_cycle |-> cycle]
            /\ UNCHANGED <<entryFiles, courseDirs, courseDO, storeDO, semesterDO, semester_link,
                           course_link, links_configured, active_semester, active_course>>

\* Semester::name applied to a number and a cycle, and SemesterNames::deserialize
\* applied to the result
NameThenDeserialize ==
    \E number \in Numbers, study_cycle \in StudyCycles :
        LET name == format_name(study_cycle, number)
            parsed == deserialize(name)
        IN  /\ last' = Last("deserialize", empty, studies, name, empty,
                            IF parsed = None THEN "Err" ELSE "Ok", "")
                        @@ [number |-> number, study_cycle |-> Some(study_cycle),
                            parsed |-> parsed]
            /\ UNCHANGED <<disk, storeDO, semesterDO, semester_link, course_link,
                           links_configured, active_semester, active_course>>

\* the file system and the store `semester add` starts from
InitAdd ==
    /\ semesterDirs \in SUBSET NameDirs
    /\ entryFiles = {}
    /\ courseDirs = [s \in NameDirs \cup SemesterUniverse |-> {}]
    /\ courseDO = [s \in NameDirs \cup SemesterUniverse |-> [c \in CourseUniverse |-> TemplateName]]
    /\ storeDO \in {None} \cup {Some(s) : s \in NameDirs}
    /\ semesterDO = [s \in NameDirs \cup SemesterUniverse |-> None]
    /\ links_configured = FALSE
    /\ semester_link = None
    /\ course_link = None
    /\ active_semester = Store_new_active_semester
    /\ active_course = None
    /\ last = Last("new", empty, studies, empty, empty, "Ok", "")

NextAdd ==
    \/ StoreNew
    \/ SemesterAdd
    \/ SemesterRemove

SpecAdd == InitAdd /\ [][NextAdd]_vars

\* the naming policy alone: an empty entry point, no semester active
InitNames ==
    /\ semesterDirs = {}
    /\ entryFiles = {}
    /\ courseDirs = [s \in SemesterUniverse |-> {}]
    /\ courseDO = [s \in SemesterUniverse |-> [c \in CourseUniverse |-> TemplateName]]
    /\ storeDO = None
    /\ semesterDO = [s \in SemesterUniverse |-> None]
    /\ links_configured = FALSE
    /\ semester_link = None
    /\ course_link = None
    /\ active_semester = None
    /\ active_course = None
    /\ last = Last("new", empty, studies, empty, empty, "Ok", "")

NextNames == NameThenDeserialize

SpecNames == InitNames /\ [][NextNames]_vars

(***************************************************************************)
(* The symlink mirror alone (domain/paths.rs MaybeSymLinkable), on the     *)
(* semester link: its construction from the configuration, link_from and   *)
(* remove_link.                                                            *)
(***************************************************************************)
\* the directories a link is pointed at
LinkTargets ==
    {outside, <<studies[1], b01, cx>>} \cup {join(studies, s) : s \in SemesterUniverse}

\* Config::from_path: the mirror of the semester link is constructed
MirrorNew ==
    /\ last' = Last("mirror_new", empty, studies, empty, empty,
                    MaybeSymLinkable_new(semester_link), "")
    /\ UNCHANGED <<disk, storeDO, semesterDO, semester_link, course_link,
                   links_configured, active_semester, active_course>>

\* link_from on a constructed mirror: a mirror is constructed over a symlink
\* only, and its operations leave a symlink or nothing at the path
MirrorLinkFrom ==
    \E original \in LinkTargets :
        /\ semester_link # Some(not_a_link)
        /\ semester_link' = link_from(semester_link, original)
        /\ last' = Last("link_from", empty, studies, empty, empty,
                        link_from_result(semester_link), "")
                    @@ [original |-> original, before |-> semester_link]
        /\ UNCHANGED <<disk, storeDO, semesterDO, course_link,
                       links_configured, active_semester, active_course>>

\* remove_link on a constructed mirror
MirrorRemoveLink ==
    /\ semester_link # Some(not_a_link)
    /\ semester_link' = remove_link(semester_link)
    /\ last' = Last("remove_link", empty, studies, empty, empty, "Ok", "")
                @@ [before |-> semester_link]
    /\ UNCHANGED <<disk, storeDO, semesterDO, course_link,
                   links_configured, active_semester, active_course>>

\* the path of the semester link is configured or not; when it is, nothing, a
\* symlink to a directory that exists or not, or a file may be at the path
InitLink ==
    /\ semesterDirs \in SUBSET SemesterUniverse
    /\ entryFiles = {}
    /\ courseDirs = [s \in SemesterUniverse |-> {}]
    /\ courseDO = [s \in SemesterUniverse |-> [c \in CourseUniverse |-> TemplateName]]
    /\ storeDO = None
    /\ semesterDO = [s \in SemesterUniverse |-> None]
    /\ links_configured \in BOOLEAN
    /\ semester_link \in IF links_configured
                         THEN {None, Some(not_a_link)} \cup {Some(t) : t \in LinkTargets}
                         ELSE {None}
    /\ course_link = None
    /\ active_semester = None
    /\ active_course = None
    /\ last = Last("new", empty, studies, empty, empty, "Ok", "")

NextLink ==
    \/ MirrorNew
    \/ MirrorLinkFrom
    \/ MirrorRemoveLink

SpecLink == InitLink /\ [][NextLink]_vars

(***************************************************************************)
(* The context switch on a file system in which the course.toml of a       *)
(* course may be unreadable, so that the course lookup can fail after the  *)
(* semester was found.                                                     *)
(***************************************************************************)
InitContext ==
    /\ semesterDirs \in SUBSET SemesterUniverse
    /\ entryFiles = {}
    /\ courseDirs \in [SemesterUniverse -> SUBSET InitCourses]
    /\ \A s \in SemesterUniverse \ semesterDirs : courseDirs[s] = {}
    /\ courseDO \in [SemesterUniverse -> [CourseUniverse -> {TemplateName, unreadable}]]
    /\ \A s \in SemesterUniverse : \A c \in CourseUniverse \ courseDirs[s] :
           courseDO[s][c] = TemplateName
    /\ storeDO \in {None} \cup {Some(s) : s \in SemesterUniverse}
    /\ semesterDO \in [SemesterUniverse -> {None, Some(cx)}]
    /\ \A s \in SemesterUniverse \ semesterDirs : semesterDO[s] = None
    /\ links_configured = TRUE
    /\ semester_link = Some(outside)
    /\ course_link = Some(outside)
    /\ active_semester = Store_new_active_semester
    /\ active_course = None
    /\ last = Last("new", empty, studies, empty, empty, "Ok", "")

NextContext ==
    \/ StoreNew
    \/ ContextSwitch

SpecContext == InitContext /\ [][NextContext]_vars

(***************************************************************************)
(* The enumerations of the store (domain/paths.rs, domain/store.rs,        *)
(* domain/semester.rs) on an entry point that may hold regular files with  *)
(* the names of semesters.                                                 *)
(***************************************************************************)
\* the ascending order of the course names in use
SortedCourses == <<cx, cy>>

\* whether a sequence of course names is in ascending order
IsSorted(names) ==
    \A i, j \in 1..Len(names) :
        i < j => \E a, b \in 1..Len(SortedCourses) :
                     a <= b /\ SortedCourses[a] = names[i] /\ SortedCourses[b] = names[j]

\* EntryPoint::semester_paths and Store::semesters are enumerated
StoreSemesters ==
    \E order \in Orders(SemesterUniverse) :
        /\ last' = Last("semesters", empty, studies, empty, empty, "Ok", "")
                    @@ [paths |-> semester_paths(order),
                        semesters |-> LET sems == semesters(order)
                                      IN  [i \in 1..Len(sems) |-> sems[i].path]]
        /\ UNCHANGED <<disk, storeDO, semesterDO, semester_link, course_link,
                       links_configured, active_semester, active_course>>

\* Semester::courses of a semester the store returns is enumerated
SemesterCourses ==
    \E name \in SemesterUniverse, corder \in Orders(CourseUniverse) :
        /\ get_semester(name) # None
        /\ last' = Last("courses", empty, studies, name, empty, "Ok", "")
                    @@ [courses |-> LET cs == Semester_courses(get_semester(name)[1], corder)
                                    IN  [i \in 1..Len(cs) |-> cs[i].path.name]]
        /\ UNCHANGED <<disk, storeDO, semesterDO, semester_link, course_link,
                       links_configured, active_semester, active_course>>

\* every semester name is the name of a directory, of a file or of nothing
InitPaths ==
    /\ semesterDirs \in SUBSET SemesterUniverse
    /\ entryFiles \in SUBSET (SemesterUniverse \ semesterDirs)
    /\ courseDirs \in [SemesterUniverse -> SUBSET CourseUniverse]
    /\ \A s \in SemesterUniverse \ semesterDirs : courseDirs[s] = {}
    /\ courseDO = [s \in SemesterUniverse |-> [c \in CourseUniverse |-> TemplateName]]
    /\ storeDO = None
    /\ semesterDO = [s \in SemesterUniverse |-> None]
    /\ links_configured = FALSE
    /\ semester_link = None
    /\ course_link = None
    /\ active_semester = None
    /\ active_course = None
    /\ last = Last("new", empty, studies, empty, empty, "Ok", "")

NextPaths ==
    \/ StoreSemesters
    \/ SemesterCourses

SpecPaths == InitPaths /\ [][NextPaths]_vars

(***************************************************************************)
(* Removal and re-creation: `semester remove`, `course remove` and `course *)
(* add` (service/semester.rs, service/course.rs) and new invocations,      *)
(* after a switch has made its selection.                                  *)
(***************************************************************************)
\* CourseService::add: `course add <name>`
CourseAdd ==
    \E name \in CourseUniverse :
        LET semester == current_semester
            taken == exists(join(semester[1].path.path, name))
            adds == semester # None /\ ~taken
        IN  /\ IF adds
               THEN /\ courseDirs' = [courseDirs EXCEPT ![semester[1].path.name] = @ \cup {name}]
                    /\ courseDO' = [courseDO EXCEPT ![semester[1].path.name][name] = TemplateName]
                    /\ UNCHANGED <<semesterDirs, entryFiles>>
               ELSE UNCHANGED disk
            /\ last' = Last("course_add", empty, studies, name, empty,
                            IF semester # None /\ taken THEN "Err" ELSE "Ok",
                            IF semester = None THEN "NoActiveSemester"
                            ELSE IF taken THEN "AlreadyExists" ELSE "added")
            /\ UNCHANGED <<storeDO, semesterDO, semester_link, course_link,
                           links_configured, active_semester, active_course>>

\* the state a switch leaves: the symlinks mirror the persisted selection
InitRemove ==
    /\ semesterDirs \in SUBSET SemesterUniverse
    /\ entryFiles = {}
    /\ courseDirs \in [SemesterUniverse -> SUBSET InitCourses]
    /\ \A s \in SemesterUniverse \ semesterDirs : courseDirs[s] = {}
    /\ courseDO = [s \in SemesterUniverse |-> [c \in CourseUniverse |-> TemplateName]]
    /\ storeDO \in {None} \cup {Some(s) : s \in semesterDirs}
    /\ semesterDO \in [SemesterUniverse -> {None, Some(cx)}]
    /\ \A s \in SemesterUniverse : semesterDO[s] # None => cx \in courseDirs[s]
    /\ links_configured = TRUE
    /\ semester_link = IF storeDO = None THEN None ELSE Some(join(studies, storeDO[1]))
    /\ course_link = IF storeDO = None \/ semesterDO[storeDO[1]] = None THEN None
                     ELSE Some(<<studies[1], storeDO[1], semesterDO[storeDO[1]][1]>>)
    /\ active_semester = Store_new_active_semester
    /\ active_course = None
    /\ last = Last("new", empty, studies, empty, empty, "Ok", "")

NextRemove ==
    \/ StoreNew
    \/ SemesterRemove
    \/ CourseRemove
    \/ CourseAdd

SpecRemove == InitRemove /\ [][NextRemove]_vars

(***************************************************************************)
(* Properties                                                              *)
(***************************************************************************)
\* the name of current_semester(), and the path of current_course()
current_semester_name ==
    IF current_semester = None THEN None ELSE Some(current_semester[1].path.name)

current_course_path ==
    IF current_course = None THEN None ELSE Some(current_course[1].path.path)

segments == split(last.reference)

\* C1: after a one-segment reference that names an existing semester S has been
\* resolved, current_semester() is S and current_course() is None.
C1_SemesterReferenceClearsCourse ==
    (/\ last.op = "reference_switch"
     /\ Len(segments) = 1
     /\ get_semester(segments[1]) # None)
    => /\ last.res = "Ok"
       /\ current_semester_name = Some(segments[1])
       /\ current_course = None

\* C2: a one-segment reference that names no semester and no course directory of
\* the active semester, but a course directory of another semester, succeeds and
\* makes that semester and that course active.
C2_FallThroughToAnySemester ==
    [][\A name \in CourseUniverse, s \in SemesterUniverse :
          (/\ last'.op = "reference_switch"
           /\ last'.reference = name
           /\ get_semester(name) = None
           /\ current_semester # None
           /\ name \notin courseDirs[current_semester[1].path.name]
           /\ s \in semesterDirs
           /\ name \in courseDirs[s])
          => /\ last'.res = "Ok"
             /\ current_semester_name' = Some(s)
             /\ current_course_path' = Some(<<studies[1], s, name>>)]_vars

\* C3: a two-segment reference succeeds exactly when the first segment names a
\* semester and the second a course directory inside it, and then makes that
\* pair active; otherwise it fails and leaves the active-semester pointer, in
\* memory and in the root sidecar, as it was.
C3_TwoSegmentsBothOrNothing ==
    [][(last'.op = "reference_switch" /\ Len(split(last'.reference)) = 2)
        => LET s == split(last'.reference)[1]
               c == split(last'.reference)[2]
           IN  IF s \in semesterDirs /\ is_name(s) /\ c \in courseDirs[s]
               THEN /\ last'.res = "Ok"
                    /\ current_semester_name' = Some(s)
                    /\ current_course_path' = Some(<<studies[1], s, c>>)
               ELSE /\ last'.res = "Err"
                    /\ active_semester' = active_semester
                    /\ storeDO' = storeDO]_vars

\* C4: the empty reference fails with InvalidReference and changes neither the
\* active semester nor the active course.
C4_EmptyReferenceIsInvalid ==
    [][(last'.op = "reference_switch" /\ last'.reference = empty)
        => /\ last'.res = "Err"
           /\ last'.msg = "InvalidReference"
           /\ current_semester' = current_semester
           /\ current_course' = current_course]_vars

\* C5: after the active semester has been removed, current_semester() is None.
C5_RemovedActiveSemesterIsNone ==
    (/\ last.op = "semester_remove"
     /\ last.msg = "removed"
     /\ active_semester # None
     /\ active_semester[1].name = last.name)
    => current_semester = None

C5_Witness ==
    /\ last.op = "semester_remove"
    /\ last.msg = "removed"
    /\ active_semester # None
    /\ active_semester[1].name = last.name
    /\ storeDO = Some(last.name)

\* C6: after the active course of the active semester S has been removed,
\* current_course() is None and current_semester() is still S.
C6_RemovedActiveCourseClearsCourseOnly ==
    (/\ last.op = "course_remove"
     /\ last.msg = "removed"
     /\ semesterDO[active_semester[1].name] = Some(last.name))
    => /\ current_course = None
       /\ current_semester_name = Some(active_semester[1].name)

C6_Witness ==
    /\ last.op = "course_remove"
    /\ last.msg = "removed"
    /\ semesterDO[active_semester[1].name] = Some(last.name)
    /\ storeDO = Some(active_semester[1].name)

\* C7: a successful move of the active course to a new name leaves the course of
\* the new name active.
C7_MovePreservesActiveness ==
    [][(/\ last'.op = "course_move"
        /\ last'.res = "Ok"
        /\ active_course # None
        /\ active_course[1].name = last'.name)
        => /\ active_course' # None
           /\ active_course'[1].name = last'.to
           /\ active_course'[1].path = join(active_semester[1].path, last'.to)]_vars

C7_Witness ==
    /\ last.op = "course_move"
    /\ last.res = "Ok"
    /\ last.name # last.to
    /\ active_course # None
    /\ active_course[1].name = last.to

\* C8: a context switch from entry/<sem>/<course>, two levels below the entry
\* point with <sem> a semester, makes <sem> the active semester and <course>
\* its active course.
C8_ContextSwitchAtDepthTwo ==
    (/\ last.op = "context_switch"
     /\ position(last.w_dir, studies) = Some(2)
     /\ get_semester(last.w_dir[Len(studies) + 1]) # None)
    => /\ last.res = "Ok"
       /\ current_semester_name = Some(last.w_dir[Len(studies) + 1])
       /\ current_course_path = Some(last.w_dir)
       /\ storeDO = Some(last.w_dir[Len(studies) + 1])

C8_Witness ==
    /\ last.op = "context_switch"
    /\ position(last.w_dir, studies) = Some(2)
    /\ last.res = "Ok"
    /\ current_course_path = Some(last.w_dir)

\* C9: a context switch from a semester directory makes that semester active
\* and leaves no course active.
C9_ContextSwitchAtDepthOneClearsCourse ==
    (/\ last.op = "context_switch"
     /\ position(last.w_dir, studies) = Some(1)
     /\ get_semester(file_name(last.w_dir)) # None)
    => /\ last.res = "Ok"
       /\ current_semester_name = Some(file_name(last.w_dir))
       /\ current_course = None

\* C10: a context switch from the entry point leaves no semester and no course
\* active, no active semester in the root sidecar, and neither symlink.
C10_ContextSwitchAtEntryPointClearsAll ==
    (last.op = "context_switch" /\ last.w_dir = studies)
    => /\ last.res = "Ok"
       /\ current_semester = None
       /\ current_course = None
       /\ storeDO = None
       /\ semester_link = None
       /\ course_link = None

C10_Witness ==
    /\ last.op = "context_switch"
    /\ last.w_dir = studies
    /\ last.res = "Ok"
    /\ links_configured
    /\ storeDO = None

\* C11: a context switch from a working directory that is not under the entry
\* point returns an error to its caller and leaves the active semester and the
\* active course as they were.
C11_OutOfScopeFails ==
    [][(last'.op = "context_switch" /\ position(last'.w_dir, studies) = None)
        => /\ last'.res = "Err"
           /\ current_semester' = current_semester
           /\ current_course' = current_course]_vars

(***************************************************************************)
(* The same program, started on a file system in which a course directory  *)
(* may carry the name of a semester (b01/m01 next to the semester m01).    *)
(***************************************************************************)
InitPriority ==
    /\ semesterDirs = SemesterUniverse
    /\ entryFiles = {}
    /\ courseDirs \in [SemesterUniverse -> SUBSET {cx, m01}]
    /\ m01 \notin courseDirs[m01]
    /\ courseDO = [s \in SemesterUniverse |-> [c \in CourseUniverse |-> TemplateName]]
    /\ storeDO \in {None} \cup {Some(s) : s \in SemesterUniverse}
    /\ semesterDO = [s \in SemesterUniverse |-> None]
    /\ links_configured = TRUE
    /\ semester_link = Some(outside)
    /\ course_link = Some(outside)
    /\ active_semester = Store_new_active_semester
    /\ active_course = None
    /\ last = Last("new", empty, studies, empty, empty, "Ok", "")

SpecPriority == InitPriority /\ [][Next]_vars

\* C12: a one-segment reference that names an existing semester activates that
\* semester, even when the active semester has a course directory of that
\* name, and makes no course of the previously active semester active;
\* otherwise, when the active semester has a course directory of that name,
\* that course becomes active and the active semester stays, even when other
\* semesters have a course directory of that name.
C12_FirstMatchWins ==
    [][\A name \in SemesterUniverse \cup CourseUniverse :
          (last'.op = "reference_switch" /\ last'.reference = name)
          => IF name \in semesterDirs /\ is_name(name)
             THEN /\ last'.res = "Ok"
                  /\ current_semester_name' = Some(name)
                  /\ storeDO' = Some(name)
                  /\ semesterDO' = semesterDO
             ELSE (/\ current_semester # None
                   /\ name \in courseDirs[current_semester[1].path.name])
                  => /\ last'.res = "Ok"
                     /\ active_semester' = active_semester
                     /\ storeDO' = storeDO
                     /\ current_semester_name' = current_semester_name
                     /\ current_course_path' =
                            Some(<<studies[1], current_semester[1].path.name, name>>)]_vars

\* the semester m01 was activated by name while b01, whose course x the course
\* symlink still shows, has a course directory m01
C12_Witness ==
    /\ last.op = "reference_switch"
    /\ last.reference = m01
    /\ last.res = "Ok"
    /\ m01 \in courseDirs[b01]
    /\ course_link = Some(<<studies[1], b01, cx>>)
    /\ current_semester_name = Some(m01)
    /\ semesterDO[b01] = Some(cx)

\* C13: whenever current_course() returns a course, current_semester() returns
\* a semester and the course's directory is an immediate child of the
\* semester's directory.
C13_CourseBelongsToActiveSemester ==
    current_course # None
    => /\ current_semester # None
       /\ Len(current_course[1].path.path) = Len(current_semester[1].path.path) + 1
       /\ IsPrefix(current_semester[1].path.path, current_course[1].path.path)

\* C14: with both symlinks configured, after a completed switch the semester
\* symlink points at the directory of current_semester() and the course
\* symlink at the directory of current_course(), and each is absent when the
\* query returns None.
C14_LinksMirrorSelection ==
    (/\ last.op \in {"reference_switch", "context_switch"}
     /\ last.res = "Ok"
     /\ last.msg # "OutOfScope"
     /\ links_configured)
    => /\ semester_link = IF current_semester = None THEN None
                          ELSE Some(current_semester[1].path.path)
       /\ course_link = current_course_path

\* C15: a store freshly loaded from the sidecar files, with the directories
\* unchanged, reports the current_semester() and the current_course() that the
\* operations before it left, and None after the active semester was set to None.
C15_SelectionPersists ==
    [][last'.op = "new"
        => /\ current_semester' = current_semester
           /\ current_course' = current_course]_vars

\* a fresh load after a switch made a semester and one of its courses active
C15_Witness ==
    /\ last.op = "new"
    /\ current_semester # None
    /\ current_course # None
    /\ semester_link = Some(current_semester[1].path.path)
    /\ course_link = current_course_path

\* C16: loading the store while the root sidecar names a directory that does
\* not exist, or one whose name the naming policy rejects, succeeds and leaves
\* no semester active.
C16_StalePointerIsAbsent ==
    (/\ last.op = "new"
     /\ storeDO # None
     /\ \/ ~is_dir(join(studies, storeDO[1]))
        \/ ~is_name(storeDO[1]))
    => /\ last.res = "Ok"
       /\ active_semester = None
       /\ current_semester = None
       /\ current_course = None

\* a load after the semester that a switch had made active was removed
C16_Witness ==
    /\ last.op = "new"
    /\ storeDO = Some(b01)
    /\ b01 \notin semesterDirs
    /\ semester_link = Some(<<studies[1], b01>>)
    /\ current_semester = None

\* C17: deserialize of the name that Semester::name formats from a cycle and a
\* semester number returns that number and that cycle.
C17_ParseOfFormat ==
    last.op = "deserialize"
    => last.parsed = Some([semester_number |-> last.number,
                           study_cycle |-> last.study_cycle[1]])

\* C18: the name() of every semester the store returns, from get_semester of a
\* directory of the entry point or from current_semester(), is the name of its
\* directory.
C18_NameIsDirectoryName ==
    /\ \A name \in semesterDirs :
           get_semester(name) # None => Semester_name(get_semester(name)[1]) = name
    /\ current_semester # None
       => Semester_name(current_semester[1]) = current_semester[1].path.name

\* C19: when `semester add` with number n and study cycle c has created its
\* directory, the one new directory of the entry point is named format(c, n),
\* the canonical name, and get_semester of that name returns the semester.
C19_AddCreatesCanonicalDirectory ==
    [][last'.op = "semester_add" /\ semesterDirs' # semesterDirs
       => \E study_cycle \in StudyCycles, number \in AddNumbers :
              /\ last'.study_cycle = Some(study_cycle) /\ last'.number = number
              /\ semesterDirs' \ semesterDirs = {format_name(study_cycle, number)}
              /\ last'.res = "Ok"
              /\ (get_semester(format_name(study_cycle, number)) # None)']_vars

\* C20: `semester add` with number n and study cycle c, while a path named
\* format(c, n) exists under the entry point, fails with AlreadyExists and
\* leaves the directories, their contents and the active selection unchanged.
C20_AddExistingFailsAlreadyExists ==
    [][\A study_cycle \in StudyCycles, number \in AddNumbers :
           /\ last'.op = "semester_add"
           /\ last'.study_cycle = Some(study_cycle) /\ last'.number = number
           /\ exists(join(studies, format_name(study_cycle, number)))
           => /\ last'.res = "Err" /\ last'.msg = "AlreadyExists"
              /\ UNCHANGED <<semesterDirs, courseDirs, courseDO, semesterDO,
                             active_semester, active_course, storeDO>>]_vars

\* C21: constructing the mirror of a configured path fails exactly when
\* something that is not a symlink is at the path, and so succeeds when a
\* symlink or nothing is there; constructing an unconfigured mirror succeeds.
C21_MirrorConstruction ==
    last.op = "mirror_new"
    => (last.res = "Err" <=> (links_configured /\ semester_link = Some(not_a_link)))

\* C22: link_from(target) on a configured mirror, whether nothing or a symlink
\* to anywhere was at the path before, succeeds and leaves a symlink to target,
\* and a second link_from(target) leaves that state as it is; on an
\* unconfigured mirror link_from and remove_link succeed and change nothing.
C22_LinkFromIsIdempotent ==
    [][\A original \in LinkTargets :
          /\ (last'.op = "link_from" /\ last'.original = original)
             => /\ last'.res = "Ok"
                /\ IF links_configured
                   THEN /\ semester_link' = Some(original)
                        /\ (link_from(semester_link, original) = semester_link)'
                        /\ (link_from_result(semester_link) = "Ok")'
                   ELSE semester_link' = semester_link
          /\ (last'.op = "remove_link" /\ ~links_configured)
             => last'.res = "Ok" /\ semester_link' = semester_link]_vars

\* link_from has replaced a symlink to another directory, and has created the
\* link where nothing was
C22_Witness ==
    /\ last.op = "link_from"
    /\ links_configured
    /\ \/ is_symlink(last.before) /\ last.before # Some(last.original)
       \/ last.before = None
    /\ semester_link = Some(last.original)

\* C23: a successful move of the active course of the active semester to a new
\* name leaves the new name in the semester's sidecar, so that a semester
\* loaded from it reports the moved course as its active course.
C23_MoveRewritesPersistedPointer ==
    [][(/\ last'.op = "course_move"
        /\ last'.res = "Ok"
        /\ active_course # None
        /\ active_course[1].name = last'.name)
        => /\ semesterDO'[active_semester[1].name] = Some(last'.to)
           /\ Semester_new(active_semester[1])' =
                  Some([path |-> join(active_semester[1].path, last'.to), name |-> last'.to])]_vars

\* C24: a context switch from inside a course directory whose semester is
\* found and whose course lookup fails returns an error, and the semester it
\* found is the active semester afterwards, in memory and in the root sidecar.
C24_FailedCourseKeepsSemesterSwitch ==
    [][(/\ last'.op = "context_switch"
        /\ position(last'.w_dir, studies) # None
        /\ position(last'.w_dir, studies)[1] >= 2
        /\ get_semester(last'.w_dir[Len(studies) + 1]) # None
        /\ Semester_course(get_semester(last'.w_dir[Len(studies) + 1])[1],
                           last'.w_dir[Len(studies) + 2]) = None)
        => /\ last'.res = "Err"
           /\ current_semester_name' = Some(last'.w_dir[Len(studies) + 1])
           /\ storeDO' = Some(last'.w_dir[Len(studies) + 1])]_vars

\* the switch failed on the course of m01 while b01 was active before it
C24_Witness ==
    /\ last.op = "context_switch"
    /\ last.res = "Err"
    /\ last.msg = "NotACourse"
    /\ last.w_dir = <<studies[1], m01, cx>>
    /\ current_semester_name = Some(m01)
    /\ semester_link = Some(<<studies[1], m01>>)
    /\ semesterDO[b01] = Some(cx)

\* C25: a context switch from a directory more than two levels below the entry
\* point, whose ancestor directly under the entry point is a semester and whose
\* ancestor directly under that is a course of it, makes that semester the
\* active semester and that course its active course.
C25_DeepContextSwitchUsesNearestToEntry ==
    (/\ last.op = "context_switch"
     /\ position(last.w_dir, studies) # None
     /\ position(last.w_dir, studies)[1] > 2
     /\ get_semester(last.w_dir[Len(studies) + 1]) # None
     /\ Semester_course(get_semester(last.w_dir[Len(studies) + 1])[1],
                        last.w_dir[Len(studies) + 2]) # None)
    => /\ last.res = "Ok"
       /\ current_semester_name = Some(last.w_dir[Len(studies) + 1])
       /\ current_course_path = Some(SubSeq(last.w_dir, 1, Len(studies) + 2))
       /\ storeDO = Some(last.w_dir[Len(studies) + 1])
       /\ semesterDO[last.w_dir[Len(studies) + 1]] = Some(last.w_dir[Len(studies) + 2])

\* a switch from b01/x/s, three levels below the entry point, while m01 was active
C25_Witness ==
    /\ last.op = "context_switch"
    /\ last.w_dir = <<studies[1], b01, cx, sub>>
    /\ last.res = "Ok"
    /\ current_course_path = Some(<<studies[1], b01, cx>>)
    /\ semesterDO[m01] = Some(cx)
    /\ m01 \in semesterDirs

\* C26: every path that semester_paths produces, and every semester that
\* semesters() yields, is a directory directly under the entry point whose name
\* the policy accepts, and get_semester(name) returns a semester exactly for
\* the names of the semesters that semesters() yields.
C26_SemesterPathsAreDirectories ==
    last.op = "semesters"
    => /\ \A i \in 1..Len(last.paths) :
              /\ is_dir(last.paths[i].path)
              /\ last.paths[i].path = join(studies, last.paths[i].name)
              /\ is_name(last.paths[i].name)
       /\ \A i \in 1..Len(last.semesters) :
              /\ is_dir(last.semesters[i].path)
              /\ last.semesters[i].path = join(studies, last.semesters[i].name)
              /\ is_name(last.semesters[i].name)
       /\ \A name \in SemesterUniverse \cup {misc} :
              get_semester(name) # None
              <=> \E i \in 1..Len(last.semesters) : last.semesters[i].name = name

\* C27: courses() of a semester yields its course directories in ascending
\* order of their names, whatever the order in which the directory is listed.
C27_CoursesAreSorted ==
    last.op = "courses" => IsSorted(last.courses)

\* C28: `course move` to a name that already exists in the semester fails with
\* AlreadyExists, renames no directory and leaves the semester's active-course
\* pointer, in memory and in the sidecar, as it was.
C28_MoveOntoExistingFails ==
    [][(/\ last'.op = "course_move"
        /\ active_semester # None
        /\ last'.name # empty
        /\ Semester_get_course(active_semester[1], last'.name) # None
        /\ exists(join(active_semester[1].path, last'.to)))
        => /\ last'.res = "Err"
           /\ last'.msg = "AlreadyExists"
           /\ UNCHANGED <<disk, active_course, semesterDO, active_semester>>]_vars

\* a move of the active course x onto the existing course y was refused
C28_Witness ==
    /\ last.op = "course_move"
    /\ last.msg = "AlreadyExists"
    /\ last.name = cx
    /\ last.to = cy
    /\ active_course # None
    /\ active_course[1].name = cx
    /\ {cx, cy} \subseteq courseDirs[active_semester[1].name]

\* C29: after a semester was removed, the root sidecar does not name it and the
\* semester symlink does not point at it; after a course of the active semester
\* was removed, the semester's sidecar does not name it and the course symlink
\* does not point at it; and creating a course directory makes no course active
\* that was not active before.
C29_RemovalClearsPersistedPointer ==
    [][/\ (last'.op = "semester_remove" /\ last'.msg = "removed")
          => /\ storeDO' # Some(last'.name)
             /\ semester_link' # Some(join(studies, last'.name))
       /\ (last'.op = "course_remove" /\ last'.msg = "removed")
          => /\ semesterDO'[active_semester[1].name] # Some(last'.name)
             /\ course_link' # Some(join(active_semester[1].path, last'.name))
       /\ (last'.op = "course_add" /\ last'.msg = "added")
          => current_course' = current_course]_vars

\* C30: a switch, by reference or from the working directory, whether it
\* succeeds or fails, leaves the set of semester directories and the set of
\* course directories of every semester as they were.
C30_SwitchKeepsDirectories ==
    [][last'.op \in {"reference_switch", "context_switch"}
        => UNCHANGED <<semesterDirs, entryFiles, courseDirs>>]_vars

\* a switch from b01 with its course x to the semester m01 has succeeded, and
\* b01 and x are still there
C30_Witness ==
    /\ last.op \in {"reference_switch", "context_switch"}
    /\ last.res = "Ok"
    /\ current_semester_name = Some(m01)
    /\ semesterDO[b01] = Some(cx)
    /\ course_link = Some(<<studies[1], b01, cx>>)
    /\ b01 \in semesterDirs
    /\ cx \in courseDirs[b01]

====
